---- MODULE Spec2Model ----
(***************************************************************************)
(* The present loop of the "restructuring" example:                        *)
(*   chapter_code/src/bin/restructuring/render/render_loop.rs (RenderLoop) *)
(*   chapter_code/src/bin/restructuring/render/renderer.rs    (Renderer)   *)
(*   chapter_code/src/bin/restructuring/main.rs               (event loop) *)
(*                                                                         *)
(* RenderLoop::update is one callback of a single-threaded event loop, but *)
(* it blocks on fences the device resolves asynchronously, so it is split  *)
(* at its calls into the graphics library: rebuild (lines 33-41), acquire  *)
(* (43-54), wait on the slot (56-58), flush and bookkeeping (62-93).  The  *)
(* window handlers run only between two updates.  The graphics library is  *)
(* outside the repository: every result it can return to the loop is a     *)
(* nondeterministic choice.                                                *)
(*                                                                         *)
(* Two smaller programs of the repository are modelled next to it, each    *)
(* with a specification of its own that leaves the others' variables       *)
(* alone:                                                                  *)
(*   src/lib.rs, the content server and its caches      (SpecServer)       *)
(*   chapter_code/src/bin/buffer_creation.rs, the copy  (SpecCopy)         *)
(*   chapter_code/src/lib.rs, the example menu          (SpecSelect)       *)
(***************************************************************************)
EXTENDS Integers, Sequences, FiniteSets, TLC

\* ---------------------------------------------------------------- bounds
\* number of swapchain images at start-up (Renderer::get_image_count)
FramesInFlight == 3
\* number of calls of RenderLoop::update that are explored
MaxCycles == 4

\* ------------------------------------------------------------- constants
\* Option::None in a frame slot; fences are numbered from 1
None == 0

VARIABLES
    pc,                  \* position of the event loop / of update
    recreate_swapchain,  \* RenderLoop.recreate_swapchain
    window_resized,      \* RenderLoop.window_resized
    fences,              \* RenderLoop.fences: slot -> None or a fence
    previous_fence_i,    \* RenderLoop.previous_fence_i
    renderer,            \* RenderLoop.renderer (swapchain and dependants)
    image_i,             \* local of update: the acquired index
    pending,             \* device: fences produced and not yet resolved
    cycle,               \* number of update calls started so far
    steps,               \* what the current (or last) update call did
    obs,                 \* observations of the current and previous call
    \* the content server, src/lib.rs
    CACHE,               \* the three static caches: key -> rendered text
    workers,             \* the request each server thread is handling
    mutex,               \* owner of the Mutex of a cache held across a call
    rendered,            \* how often each cache has rendered each key
    served,              \* number of requests accepted so far
    \* the buffer copy example, chapter_code/src/bin/buffer_creation.rs
    main_pc,             \* position of main
    source,              \* content of the source buffer
    destination,         \* content of the destination buffer
    gpu,                 \* the copy on the device and its fence
    content,             \* what main has read from the two buffers
    \* the example menu, chapter_code/src/lib.rs
    run_pc,              \* position of main / select_example_to_run
    examples,            \* the list select_example_to_run is called with
    stdin,               \* the line read_line has read
    selection,           \* local of select_example_to_run
    executed             \* the calls of execute made so far

loop_vars == << pc, recreate_swapchain, window_resized, fences,
                previous_fence_i, renderer, image_i, pending, cycle, steps,
                obs >>
www_vars == << CACHE, workers, mutex, rendered, served >>
copy_vars == << main_pc, source, destination, gpu, content >>

select_vars == << run_pc, examples, stdin, selection, executed >>

vars == << loop_vars, www_vars, copy_vars, select_vars >>

\* image counts a swapchain (re)creation may produce: min_image_count is a
\* minimum, the surface may hand out more images than were asked for
ImageCounts == { FramesInFlight, FramesInFlight + 1 }

RecreateResults == { "ok", "unsupported", "error" }
FlushResults == { "ok", "outofdate", "error", "exec_panic" }

\* --------------------------------------------------- object identities
\* A fence is named by a number.  The fence a flush for image index i
\* returns gets the least of the names i + 1, i + 1 + (FramesInFlight + 1),
\* .. that no fence in live bears.
Fresh(live, i) ==
    LET names == { i + 1 + k * (FramesInFlight + 1) :
                     k \in 0 .. Cardinality(live) }
    IN  CHOOSE n \in names :
            n \notin live /\ \A m \in names : m < n => m \in live

\* the fences the device has not resolved yet
Unresolved == { s.id : s \in pending }

\* the fences that are unresolved or stored in a slot other than the given
\* one, whose content the flush is about to replace
KeptFences(slot) ==
    Unresolved \cup { fences[i] : i \in DOMAIN fences \ { slot } } \cup { None }

\* A swapchain is named by its status: "current" for the one the renderer
\* holds, "retired" for one that Swapchain::recreate has replaced.  The
\* window extent, the viewport and the pipeline built from it are not part
\* of the model.

\* ------------------------------------------------------------- Renderer

\* vulkano_objects::swapchain::create_framebuffers_from_swapchain_images:
\* one framebuffer per image of the given swapchain
create_framebuffers_from_swapchain_images(sc) ==
    [ swapchain |-> sc.status, count |-> sc.count ]

\* vulkano_objects::command_buffers::create_only_vertex_command_buffers:
\* one command buffer per framebuffer, recorded against that framebuffer
create_only_vertex_command_buffers(framebuffers) ==
    [ i \in 0 .. (framebuffers.count - 1) |->
        [ framebuffer |-> framebuffers.swapchain ] ]

\* Renderer::initialize
Renderer_initialize ==
    LET sc == [ status |-> "current", count |-> FramesInFlight ]
        fb == create_framebuffers_from_swapchain_images(sc)
    IN  [ swapchain       |-> sc,
          images          |-> FramesInFlight,
          framebuffers    |-> fb,
          command_buffers |-> create_only_vertex_command_buffers(fb) ]

\* Swapchain::recreate retires the swapchain it is called on: what still
\* references one of its framebuffers now references a retired swapchain
retired(cbs) == [ i \in DOMAIN cbs |-> [ framebuffer |-> "retired" ] ]

\* a variant of Renderer::recreate_swapchain without the early return of
\* line 158
Renderer_recreate_swapchain_no_return(r, res, count) ==
    LET sc == [ status |-> "current", count |-> count ]
    IN  [ r EXCEPT !.swapchain = sc,
                   !.framebuffers =
                       create_framebuffers_from_swapchain_images(sc),
                   !.command_buffers = retired(@) ]

\* Renderer::recreate_swapchain, for a recreation that returned res
\* ("ok" with count images, or "unsupported" = ImageExtentNotSupported;
\* any other error panics and is handled by the caller).  The command
\* buffers are not recorded again: they keep their framebuffers.
Renderer_recreate_swapchain(r, res, count) ==
    IF res = "unsupported"
    THEN r
    ELSE LET sc == [ status |-> "current", count |-> count ]
         IN  [ r EXCEPT !.swapchain = sc,
                        !.framebuffers =
                            create_framebuffers_from_swapchain_images(sc),
                        !.command_buffers = retired(@) ]

\* Renderer::handle_window_resize
Renderer_handle_window_resize(r, res, count) ==
    LET r1 == Renderer_recreate_swapchain(r, res, count)
    IN  [ r1 EXCEPT !.command_buffers =
                        create_only_vertex_command_buffers(r1.framebuffers) ]

\* Renderer::get_image_count
get_image_count(r) == r.images

\* ----------------------------------------------------------- RenderLoop

\* what one call of update observed: the rebuild it ran and the result of
\* the recreation, the result of the acquisition and whether it was
\* suboptimal, the result of the flush
\* and the fence it returned, and whether a rebuild was requested when the
\* call started.  obs keeps these for the current call (cur), the result of
\* the acquisition of the call before it (prev), the image indices that
\* flushes have been made for so far (targeted), and the fence the last flush
\* returned, None when it failed or none was made (last).  joined is what
\* the flush was joined with: "none" before the flush, then the previous
\* future ("now", "previous" for the fence of the last flush, "other" for
\* any other fence) and the index whose acquisition future was joined.
NoObs ==
    [ rebuild |-> "none", recreate |-> "none", acquire |-> "none",
      suboptimal |-> FALSE, flush |-> "none", fence |-> None, need |-> FALSE,
      joined |-> [ previous |-> "none", acquire |-> -1 ] ]

\* a variant of rebuild_kind without the block of lines 38-41
rebuild_kind_resize_only(resized, recreate) ==
    IF resized THEN "handle_window_resize" ELSE "none"

\* a variant of rebuild_kind that tests recreate_swapchain first
rebuild_kind_recreate_first(resized, recreate) ==
    IF recreate THEN "recreate_swapchain"
    ELSE IF resized THEN "handle_window_resize"
    ELSE "none"

\* update, lines 33 and 38: which of the two rebuild blocks runs.  The first
\* block clears both flags, so the second never runs after it.
rebuild_kind(resized, recreate) ==
    IF resized THEN "handle_window_resize"
    ELSE IF recreate THEN "recreate_swapchain"
    ELSE "none"

\* update, lines 33-41: the rebuild at the start of a cycle.  A recreation
\* error other than ImageExtentNotSupported panics (renderer.rs:159).
UpdateRebuild ==
    /\ pc = "idle"
    /\ cycle < MaxCycles
    /\ \E res \in RecreateResults, count \in ImageCounts :
        LET kind == rebuild_kind(window_resized, recreate_swapchain) IN
        /\ kind = "none" => (res = "ok" /\ count = renderer.swapchain.count)
        /\ res # "ok" => count = renderer.swapchain.count
        /\ window_resized' =
              IF kind = "handle_window_resize" THEN FALSE ELSE window_resized
        /\ recreate_swapchain' =
              IF kind = "none" THEN recreate_swapchain ELSE FALSE
        /\ renderer' =
              IF kind = "none" \/ res = "error" THEN renderer
              ELSE IF kind = "handle_window_resize"
                   THEN Renderer_handle_window_resize(renderer, res, count)
                   ELSE Renderer_recreate_swapchain(renderer, res, count)
        /\ pc' = IF kind # "none" /\ res = "error" THEN "panicked" ELSE "acquire"
        /\ steps' = IF kind = "none" THEN << >> ELSE << kind >>
        /\ obs' = [ cur  |-> [ NoObs EXCEPT
                                 !.rebuild = kind,
                                 !.recreate = IF kind = "none" THEN "none" ELSE res,
                                 !.need = window_resized \/ recreate_swapchain ],
                    prev |-> [ acquire |-> obs.cur.acquire ],
                    targeted |-> obs.targeted,
                    last |-> obs.last ]
    /\ cycle' = cycle + 1
    /\ UNCHANGED << fences, previous_fence_i, image_i, pending >>
    /\ UNCHANGED << www_vars, copy_vars, select_vars >>

\* a variant of flag_after_acquire that ignores a suboptimal result
flag_after_acquire_ignored(suboptimal, flag) == flag

\* update, lines 52-54: the flag after a successful acquisition
flag_after_acquire(suboptimal, flag) == IF suboptimal THEN TRUE ELSE flag

\* update, lines 43-54, acquire_swapchain_image returned Ok((i, suboptimal, _)).
\* Line 56 indexes fences with i and panics when i is out of bounds.
AcquireOk ==
    /\ pc = "acquire"
    /\ \E i \in 0 .. (renderer.swapchain.count - 1), suboptimal \in BOOLEAN :
        /\ image_i' = i
        /\ recreate_swapchain' = flag_after_acquire(suboptimal, recreate_swapchain)
        /\ pc' = IF i \in DOMAIN fences THEN "wait" ELSE "panicked"
        /\ obs' = [ obs EXCEPT !.cur.acquire = "ok",
                                !.cur.suboptimal = suboptimal ]
    /\ steps' = Append(steps, "acquire")
    /\ UNCHANGED << window_resized, fences, previous_fence_i, renderer, pending,
                    cycle >>
    /\ UNCHANGED << www_vars, copy_vars, select_vars >>

\* a variant of AcquireOutOfDate that returns without setting the flag
AcquireOutOfDate_no_flag ==
    /\ pc = "acquire"
    /\ pc' = "idle"
    /\ steps' = Append(steps, "acquire")
    /\ obs' = [ obs EXCEPT !.cur.acquire = "outofdate" ]
    /\ UNCHANGED << recreate_swapchain, window_resized, fences, previous_fence_i,
                    renderer, image_i, pending, cycle >>
    /\ UNCHANGED << www_vars, copy_vars, select_vars >>

\* update, lines 45-48: Err(AcquireError::OutOfDate)
AcquireOutOfDate ==
    /\ pc = "acquire"
    /\ recreate_swapchain' = TRUE
    /\ pc' = "idle"
    /\ steps' = Append(steps, "acquire")
    /\ obs' = [ obs EXCEPT !.cur.acquire = "outofdate" ]
    /\ UNCHANGED << window_resized, fences, previous_fence_i, renderer, image_i,
                    pending, cycle >>
    /\ UNCHANGED << www_vars, copy_vars, select_vars >>

\* a variant of AcquireError that returns from update instead of panicking
AcquireError_continues ==
    /\ pc = "acquire"
    /\ pc' = "idle"
    /\ steps' = Append(steps, "acquire")
    /\ obs' = [ obs EXCEPT !.cur.acquire = "error" ]
    /\ UNCHANGED << recreate_swapchain, window_resized, fences, previous_fence_i,
                    renderer, image_i, pending, cycle >>
    /\ UNCHANGED << www_vars, copy_vars, select_vars >>

\* update, line 49: any other acquisition error panics
AcquireError ==
    /\ pc = "acquire"
    /\ pc' = "panicked"
    /\ steps' = Append(steps, "acquire")
    /\ obs' = [ obs EXCEPT !.cur.acquire = "error" ]
    /\ UNCHANGED << recreate_swapchain, window_resized, fences, previous_fence_i,
                    renderer, image_i, pending, cycle >>
    /\ UNCHANGED << www_vars, copy_vars, select_vars >>

\* a variant of slot_ready that never waits
slot_ready_no_wait(f) == TRUE

\* update, lines 56-58: fence.wait(None) returns once the fence stored in
\* the slot is resolved; an empty slot is not waited on
slot_ready(f) == f = None \/ f \notin Unresolved

\* a variant of waited_slot that looks at the neighbouring slot
waited_slot_off_by_one(i, n) == (i + 1) % n

\* update, line 56: the slot whose fence is waited on, of n slots
waited_slot(i, n) == i

\* a variant of WaitSlot that goes on without looking at the slot
WaitSlot_no_block ==
    /\ pc = "wait"
    /\ pc' = "submit"
    /\ steps' = Append(steps, "wait")
    /\ UNCHANGED << recreate_swapchain, window_resized, fences, previous_fence_i,
                    renderer, image_i, pending, cycle, obs >>
    /\ UNCHANGED << www_vars, copy_vars, select_vars >>

WaitSlot ==
    /\ pc = "wait"
    /\ slot_ready(fences[waited_slot(image_i, FramesInFlight)])
    /\ pc' = "submit"
    /\ steps' = Append(steps, "wait")
    /\ UNCHANGED << recreate_swapchain, window_resized, fences, previous_fence_i,
                    renderer, image_i, pending, cycle, obs >>
    /\ UNCHANGED << www_vars, copy_vars, select_vars >>

\* update, line 57: wait(None) returned an error and unwrap panics
WaitError ==
    /\ pc = "wait"
    /\ fences[image_i] # None
    /\ pc' = "panicked"
    /\ UNCHANGED << recreate_swapchain, window_resized, fences, previous_fence_i,
                    renderer, image_i, pending, cycle, steps, obs >>
    /\ UNCHANGED << www_vars, copy_vars, select_vars >>

\* update, lines 81-91: what is stored in the slot for a flush result
slot_after_flush(res, fence) == IF res = "ok" THEN fence ELSE None

\* update, lines 83-86: the flag after a flush result
recreate_after_flush(res, flag) == IF res = "outofdate" THEN TRUE ELSE flag

\* a variant of previous_after_flush that keeps the old index
previous_kept(prev_i, i) == prev_i

\* update, line 93
previous_after_flush(prev_i, i) == i

\* a variant of stored_slot that writes the slot of the previous submission
stored_slot_previous(i, prev_i) == prev_i

\* update, line 81: the slot the result of the flush is stored in
stored_slot(i, prev_i) == i

\* a variant in which something needs all GPU resources
something_needs_all_gpu_resources_set == TRUE

\* update, line 62
something_needs_all_gpu_resources == FALSE

\* a variant of previous_future that takes the slot of the acquired index
previous_future_acquired(fs, prev_i, i) == fs[i]

\* update, lines 62-71: the future the flush is joined with is the fence in
\* the slot of previous_fence_i, or Renderer::synchronize (sync::now, here
\* None) when that slot is empty
previous_future(fs, prev_i, i) == fs[prev_i]

\* update, lines 66-68: the fence of the previous submission is waited on
\* only if something needs all GPU resources
previous_waited(f) == something_needs_all_gpu_resources => slot_ready(f)

\* Renderer::flush_next_future, renderer.rs:213-214: previous_future is
\* joined with the acquisition future of image_i
join(previous, last, i) ==
    [ previous |-> IF previous = None THEN "now"
                   ELSE IF previous = last THEN "previous" ELSE "other",
      acquire  |-> i ]

\* update, lines 62-93: flush_next_future and the bookkeeping.
\* then_execute(..).unwrap() and the index into command_buffers
\* (renderer.rs:215-219) can panic.
Flush ==
    /\ pc = "submit"
    /\ previous_waited(previous_future(fences, previous_fence_i, image_i))
    /\ \E res \in FlushResults :
        IF res = "exec_panic" \/ image_i \notin DOMAIN renderer.command_buffers
        THEN /\ pc' = "panicked"
             /\ obs' = [ obs EXCEPT !.cur.flush = "exec_panic" ]
             /\ UNCHANGED << recreate_swapchain, fences, previous_fence_i,
                             pending, steps >>
        ELSE LET fence == Fresh(KeptFences(stored_slot(image_i, previous_fence_i)),
                                image_i) IN
             /\ pc' = "idle"
             /\ fences' = [ fences EXCEPT
                              ![stored_slot(image_i, previous_fence_i)] =
                                  slot_after_flush(res, fence) ]
             /\ pending' =
                  IF res = "ok"
                  THEN pending \cup
                         { [ id |-> fence, slot |-> image_i ] }
                  ELSE pending
             /\ recreate_swapchain' = recreate_after_flush(res, recreate_swapchain)
             /\ previous_fence_i' = previous_after_flush(previous_fence_i, image_i)
             /\ steps' = IF res = "ok"
                         THEN steps \o << "submit", "present" >>
                         ELSE Append(steps, "submit")
             /\ obs' = [ obs EXCEPT
                          !.cur.flush = res,
                          !.cur.fence = IF res = "ok" THEN fence ELSE None,
                          !.cur.joined =
                              join(previous_future(fences, previous_fence_i, image_i),
                                   obs.last, image_i),
                          !.targeted = @ \cup { image_i },
                          !.last = IF res = "ok" THEN fence ELSE None ]
    /\ UNCHANGED << window_resized, renderer, image_i, cycle >>
    /\ UNCHANGED << www_vars, copy_vars, select_vars >>

\* the device resolves a fence
ResolveFence ==
    /\ pc \notin { "panicked", "exited" }
    /\ \E s \in pending : pending' = pending \ { s }
    /\ UNCHANGED << pc, recreate_swapchain, window_resized, fences,
                    previous_fence_i, renderer, image_i, cycle, steps, obs >>
    /\ UNCHANGED << www_vars, copy_vars, select_vars >>

\* a variant of the resize handler that rebuilds at once
RenderLoop_handle_window_resize_eager ==
    /\ pc = "idle"
    /\ window_resized' = TRUE
    /\ \E count \in ImageCounts :
          renderer' = Renderer_handle_window_resize(renderer, "ok", count)
    /\ UNCHANGED << pc, recreate_swapchain, fences, previous_fence_i, image_i,
                    pending, cycle, steps, obs >>
    /\ UNCHANGED << www_vars, copy_vars, select_vars >>

\* RenderLoop::handle_window_resize, lines 96-99, called from main.rs:20-25
RenderLoop_handle_window_resize ==
    /\ pc = "idle"
    /\ window_resized' = TRUE
    /\ UNCHANGED << pc, recreate_swapchain, fences, previous_fence_i, renderer,
                    image_i, pending, cycle, steps, obs >>
    /\ UNCHANGED << www_vars, copy_vars, select_vars >>

\* a variant of CloseRequested that exits only once the device is idle
CloseRequested_drains ==
    /\ pc = "idle"
    /\ pending = {}
    /\ pc' = "exited"
    /\ UNCHANGED << recreate_swapchain, window_resized, fences, previous_fence_i,
                    renderer, image_i, pending, cycle, steps, obs >>
    /\ UNCHANGED << www_vars, copy_vars, select_vars >>

\* a variant of CloseRequested that empties the slots
CloseRequested_clears ==
    /\ pc = "idle"
    /\ pc' = "exited"
    /\ fences' = [ i \in DOMAIN fences |-> None ]
    /\ UNCHANGED << recreate_swapchain, window_resized, previous_fence_i,
                    renderer, image_i, pending, cycle, steps, obs >>
    /\ UNCHANGED << www_vars, copy_vars, select_vars >>

\* main.rs:14-19: CloseRequested sets ControlFlow::Exit
CloseRequested ==
    /\ pc = "idle"
    /\ pc' = "exited"
    /\ UNCHANGED << recreate_swapchain, window_resized, fences, previous_fence_i,
                    renderer, image_i, pending, cycle, steps, obs >>
    /\ UNCHANGED << www_vars, copy_vars, select_vars >>

\* ====================================================== content server
\* src/lib.rs.  rouille::start_server answers requests on a pool of threads;
\* every request that is not a static asset goes through routes.

\* number of server threads that handle requests at the same time
ServerThreads == 2
\* number of requests that are explored
MaxRequests == 3

Threads == 1 .. ServerThreads

\* request paths: two plain pages, three guide pages of which two serve the
\* same markdown file (lines 121-130), and two paths no route matches
Paths ==
    { "/", "/donate", "/guide/memory", "/guide/windowing",
      "/guide/windowing/introduction", "/nothing", "/missing" }

\* routes, lines 48-153: the template function a path is answered with, the
\* included file that is its body, and the status code.  A text is a
\* sequence: the name of the file it was included from, preceded by the
\* renderings applied to it.
routes(path) ==
    CASE path = "/" ->
           [ template |-> "main_template", body |-> << "home.html" >>,
             status |-> 200 ]
      [] path = "/donate" ->
           [ template |-> "main_template", body |-> << "donate.html" >>,
             status |-> 200 ]
      [] path = "/guide/memory" ->
           [ template |-> "guide_template_markdown",
             body |-> << "wip/memory.md" >>, status |-> 200 ]
      [] path \in { "/guide/windowing", "/guide/windowing/introduction" } ->
           [ template |-> "guide_template_markdown",
             body |-> << "windowing/introduction.md" >>, status |-> 200 ]
      [] OTHER ->
           [ template |-> "main_template", body |-> << "404.html" >>,
             status |-> 404 ]

\* pulldown_cmark::html::push_html, line 237
push_html(body) == << "html" >> \o body

\* GUIDE_TEMPLATE.render_data, lines 208-214
GUIDE_TEMPLATE(body) == << "guide" >> \o body

\* MAIN_TEMPLATE.render_data, lines 175-181
MAIN_TEMPLATE(body) == << "main" >> \o body

\* the rendering a cache stores
render(cache, body) ==
    CASE cache = "markdown" -> push_html(body)
      [] cache = "guide"    -> GUIDE_TEMPLATE(body)
      [] cache = "main"     -> MAIN_TEMPLATE(body)

CacheNames == { "markdown", "guide", "main" }

NoWorker == 0

IdleWorker ==
    [ pc |-> "idle", path |-> "", body |-> << >>,
      response |-> [ status |-> 0, html |-> << >> ] ]

\* the statics of lines 161-167, 194-200 and 226-228 before the first
\* request: every cache is an empty HashMap behind an unlocked Mutex
ServerInit ==
    /\ CACHE = [ c \in CacheNames |-> << >> ]
    /\ workers = [ t \in Threads |-> IdleWorker ]
    /\ mutex = [ c \in CacheNames |-> NoWorker ]
    /\ rendered = [ markdown |-> << >>, guide |-> << >>, main |-> << >>,
                    page |-> [ p \in Paths |-> 0 ], answered |-> {} ]
    /\ served = 0

\* a variant of entry that never finds the key
entry_always_vacant(cache, key) == "Vacant"

\* HashMap::entry, lines 172, 205 and 233
entry(cache, key) == IF key \in DOMAIN cache THEN "Occupied" ELSE "Vacant"

\* VacantEntry::insert
insert(cache, key, text) == (key :> text) @@ cache

\* one more rendering of key
counted(count, key) ==
    IF key \in DOMAIN count
    THEN [ count EXCEPT ![key] = @ + 1 ]
    ELSE (key :> 1) @@ count

\* a variant of mutex_of with one Mutex for the three caches
mutex_of_shared(c) == "main"

\* lines 166, 199 and 227: each function has a static CACHE of its own, and
\* locks the Mutex of that cache
mutex_of(c) == c

\* lines 171-183, 204-216 and 232-240: the match on the entry of body in
\* the cache named c, by worker t.  The Mutex of the cache is taken, the
\* thread blocks while another guard of it is alive, and it is held until
\* the function returns (Respond).
lookup(t, c) ==
    LET key == workers[t].body
        hit == entry(CACHE[c], key) = "Occupied"
    IN  /\ mutex[mutex_of(c)] = NoWorker
        /\ mutex' = [ mutex EXCEPT ![mutex_of(c)] = t ]
        /\ CACHE' = [ CACHE EXCEPT
                        ![c] = IF hit THEN @ ELSE insert(@, key, render(c, key)) ]
        /\ rendered' =
             [ rendered EXCEPT
                 ![c] = IF hit THEN @ ELSE counted(@, key),
                 !.page = IF hit \/ c # "main" THEN @
                          ELSE [ @ EXCEPT ![workers[t].path] = @ + 1 ] ]

\* a variant of html that answers with an entry of the cache whatever the key
html_any_entry(t, c) == CACHE'[c][CHOOSE key \in DOMAIN CACHE'[c] : TRUE]

\* the text the match evaluates to: html.clone()
html(t, c) == CACHE'[c][workers[t].body]

\* start, lines 26-44, and routes: a thread takes a request that is not a
\* static asset
Request(t) ==
    /\ workers[t].pc = "idle"
    /\ served < MaxRequests
    /\ \E path \in Paths :
          workers' = [ workers EXCEPT
                         ![t] = [ IdleWorker EXCEPT
                                    !.pc = routes(path).template,
                                    !.path = path,
                                    !.body = routes(path).body ] ]
    /\ served' = served + 1
    /\ UNCHANGED << CACHE, mutex, rendered >>
    /\ UNCHANGED << loop_vars, copy_vars, select_vars >>

\* guide_template_markdown, lines 222-243, up to the call of guide_template
GuideTemplateMarkdown(t) ==
    /\ workers[t].pc = "guide_template_markdown"
    /\ lookup(t, "markdown")
    /\ workers' = [ workers EXCEPT ![t].pc = "guide_template",
                                   ![t].body = html(t, "markdown") ]
    /\ UNCHANGED served
    /\ UNCHANGED << loop_vars, copy_vars, select_vars >>

\* guide_template, lines 190-219, up to the call of main_template
GuideTemplate(t) ==
    /\ workers[t].pc = "guide_template"
    /\ lookup(t, "guide")
    /\ workers' = [ workers EXCEPT ![t].pc = "main_template",
                                   ![t].body = html(t, "guide") ]
    /\ UNCHANGED served
    /\ UNCHANGED << loop_vars, copy_vars, select_vars >>

\* main_template, lines 157-186, up to Response::html(html.clone())
MainTemplate(t) ==
    /\ workers[t].pc = "main_template"
    /\ lookup(t, "main")
    /\ workers' = [ workers EXCEPT
                      ![t].pc = "respond",
                      ![t].response =
                          [ status |-> routes(workers[t].path).status,
                            html   |-> html(t, "main") ] ]
    /\ UNCHANGED served
    /\ UNCHANGED << loop_vars, copy_vars, select_vars >>

\* the functions return: every MutexGuard the thread holds is dropped and
\* the response is sent
Respond(t) ==
    /\ workers[t].pc = "respond"
    /\ mutex' = [ c \in CacheNames |->
                    IF mutex[c] = t THEN NoWorker ELSE mutex[c] ]
    /\ rendered' = [ rendered EXCEPT !.answered = @ \cup { workers[t].path } ]
    /\ workers' = [ workers EXCEPT ![t] = IdleWorker ]
    /\ UNCHANGED << CACHE, served >>
    /\ UNCHANGED << loop_vars, copy_vars, select_vars >>


\* ================================================= buffer copy example
\* chapter_code/src/bin/buffer_creation.rs, main, lines 56-107.  The device
\* executes the copy asynchronously, element by element, and signals the
\* fence of the submission when the copy is complete.

\* number of elements of source_content (0..64) and of destination_content
BufferLen == 64

\* lines 57-79: source holds 0, 1, .., 63 and destination holds zeros
CopyInit ==
    /\ main_pc = "start"
    /\ source = [ i \in 1 .. BufferLen |-> i - 1 ]
    /\ destination = [ i \in 1 .. BufferLen |-> 0 ]
    /\ gpu = [ state |-> "idle", copied |-> 0 ]
    /\ content = [ src |-> << >>, dst |-> << >> ]

\* lines 95-99: then_execute and then_signal_fence_and_flush submit the
\* command buffer; an error of either is unwrapped
SubmitCopy ==
    /\ main_pc = "start"
    /\ \E res \in { "ok", "error" } :
          IF res = "ok"
          THEN /\ main_pc' = "flushed"
               /\ gpu' = [ gpu EXCEPT !.state = "executing" ]
          ELSE /\ main_pc' = "panicked_flush"
               /\ UNCHANGED gpu
    /\ UNCHANGED << source, destination, content >>
    /\ UNCHANGED << loop_vars, www_vars, select_vars >>

\* the device copies the next element (copy_buffer, lines 88-90)
CopyElement ==
    /\ gpu.state = "executing"
    /\ gpu.copied < BufferLen
    /\ main_pc \in { "flushed", "waiting", "reading" }
    /\ destination' = [ destination EXCEPT
                          ![gpu.copied + 1] = source[gpu.copied + 1] ]
    /\ gpu' = [ gpu EXCEPT !.copied = @ + 1 ]
    /\ UNCHANGED << main_pc, source, content >>
    /\ UNCHANGED << loop_vars, www_vars, select_vars >>

\* the device signals the fence once the copy is complete
SignalFence ==
    /\ gpu.state = "executing"
    /\ gpu.copied = BufferLen
    /\ main_pc \in { "flushed", "waiting", "reading" }
    /\ gpu' = [ gpu EXCEPT !.state = "signalled" ]
    /\ UNCHANGED << main_pc, source, destination, content >>
    /\ UNCHANGED << loop_vars, www_vars, select_vars >>

\* line 101: main calls future.wait(None)
CallWait ==
    /\ main_pc = "flushed"
    /\ main_pc' = "waiting"
    /\ UNCHANGED << source, destination, gpu, content >>
    /\ UNCHANGED << loop_vars, www_vars, select_vars >>

\* a variant of fence_ready that returns at once
fence_ready_no_wait(g) == TRUE

\* line 101: wait(None) returns Ok once the fence is signalled
fence_ready(g) == g.state = "signalled"

WaitReturns ==
    /\ main_pc = "waiting"
    /\ fence_ready(gpu)
    /\ main_pc' = "reading"
    /\ UNCHANGED << source, destination, gpu, content >>
    /\ UNCHANGED << loop_vars, www_vars, select_vars >>

\* line 101: wait(None) returned an error and unwrap panics
WaitCopyError ==
    /\ main_pc = "waiting"
    /\ main_pc' = "panicked_wait"
    /\ UNCHANGED << source, destination, gpu, content >>
    /\ UNCHANGED << loop_vars, www_vars, select_vars >>

\* lines 103-104: source.read() and destination.read().  A buffer the
\* device may still write is locked: read returns an error, which is
\* unwrapped.
ReadBuffers ==
    /\ main_pc = "reading"
    /\ IF gpu.state = "signalled"
       THEN /\ content' = [ src |-> source, dst |-> destination ]
            /\ main_pc' = "assert"
       ELSE /\ main_pc' = "panicked_read"
            /\ UNCHANGED content
    /\ UNCHANGED << source, destination, gpu >>
    /\ UNCHANGED << loop_vars, www_vars, select_vars >>

\* lines 105-107: assert_eq!(&*src_content, &*destination_content)
AssertEq ==
    /\ main_pc = "assert"
    /\ main_pc' = IF content.src = content.dst THEN "done" ELSE "assert_failed"
    /\ UNCHANGED << source, destination, gpu, content >>
    /\ UNCHANGED << loop_vars, www_vars, select_vars >>

\* ======================================================== example menu
\* chapter_code/src/lib.rs, select_example_to_run, lines 20-62, called from
\* chapter_code/src/bin/images/main.rs.  A text is a sequence of pieces: a
\* piece is one character, or a run of characters that is never split (a
\* word, or twenty nines); no piece is a concatenation of other pieces, so
\* two texts are equal strings exactly when they are equal sequences.

\* longest line typed, in pieces, without the line end
MaxLine == 3

\* ASCII digits
Digits == { "0", "1", "2" }

\* twenty nines: a decimal number above usize::MAX
ManyNines == "99999999999999999999"

\* a character of a numeric category that is no ASCII digit
Superscript == "²"

Blank == " "
LineEnd == "\n"

\* runs of letters: the names of the examples and another word
Words == { "image_clear", "mandelbrot", "x" }

\* what can be typed before the line end
Typed == Digits \cup { ManyNines, Superscript, Blank } \cup Words

Lines == UNION { [ 1 .. n -> Typed ] : n \in 0 .. MaxLine }

\* images/main.rs:6
EXAMPLES == << << "image_clear" >>, << "mandelbrot" >> >>

\* char::is_whitespace
is_whitespace(c) == c \in { Blank, LineEnd }

\* char::is_numeric, line 39: any character of a numeric category
is_numeric(c) == c \in Digits \cup { ManyNines, Superscript }

RECURSIVE trim_start(_)
trim_start(s) ==
    IF s # << >> /\ is_whitespace(Head(s)) THEN trim_start(Tail(s)) ELSE s

RECURSIVE trim_end(_)
trim_end(s) ==
    IF s # << >> /\ is_whitespace(s[Len(s)])
    THEN trim_end(SubSeq(s, 1, Len(s) - 1))
    ELSE s

\* str::trim, line 32
trim(s) == trim_end(trim_start(s))

\* the value of an ASCII digit
to_digit(c) == CASE c = "0" -> 0 [] c = "1" -> 1 [] c = "2" -> 2

RECURSIVE decimal(_)
decimal(s) ==
    IF s = << >> THEN 0
    ELSE 10 * decimal(SubSeq(s, 1, Len(s) - 1)) + to_digit(s[Len(s)])

\* str::parse::<usize>, line 42: an error for an empty text, for a character
\* that is no ASCII digit, and for a number above usize::MAX
parse(s) ==
    IF s = << >> \/ \E k \in 1 .. Len(s) : s[k] \notin Digits \cup { ManyNines }
    THEN [ ok |-> FALSE, value |-> 0 ]
    ELSE IF \E k \in 1 .. Len(s) : s[k] = ManyNines
    THEN [ ok |-> FALSE, value |-> 0 ]
    ELSE [ ok |-> TRUE, value |-> decimal(s) ]

\* Iterator::position, line 54: the index of the first example of that name,
\* -1 for None
position(list, name) ==
    IF \E k \in 1 .. Len(list) : list[k] = name
    THEN (CHOOSE k \in 1 .. Len(list) :
              /\ list[k] = name
              /\ \A j \in 1 .. k - 1 : list[j] # name) - 1
    ELSE -1

\* a variant of index_known that admits the length of the list
index_known_inclusive(i, n) == i <= n

\* line 43, negated: the index corresponds to an example
index_known(i, n) == i < n

SelectInit ==
    /\ run_pc = "main"
    /\ examples = << >>
    /\ stdin = << >>
    /\ selection = << >>
    /\ executed = << >>

\* execute(examples[i]); indexing past the end of the list panics
execute(i) ==
    IF i + 1 \in DOMAIN examples
    THEN /\ executed' = Append(executed, examples[i + 1])
         /\ run_pc' = "returned"
    ELSE /\ executed' = executed
         /\ run_pc' = "panicked"

\* images/main.rs:21-23: main calls select_example_to_run with EXAMPLES
SelectMain ==
    /\ run_pc = "main"
    /\ examples' = EXAMPLES
    /\ run_pc' = "read_line"
    /\ UNCHANGED << stdin, selection, executed >>
    /\ UNCHANGED << loop_vars, www_vars, copy_vars >>

\* lines 27-30: read_line appends the line typed, with its line end unless
\* the input ended without one
ReadLine ==
    /\ run_pc = "read_line"
    /\ \E typed \in Lines, end \in { << >>, << LineEnd >> } :
          /\ stdin' = typed \o end
          /\ selection' = selection \o typed \o end
    /\ run_pc' = "trim"
    /\ UNCHANGED << examples, executed >>
    /\ UNCHANGED << loop_vars, www_vars, copy_vars >>

\* line 30: expect panics when read_line fails
ReadLineError ==
    /\ run_pc = "read_line"
    /\ run_pc' = "panicked"
    /\ UNCHANGED << examples, stdin, selection, executed >>
    /\ UNCHANGED << loop_vars, www_vars, copy_vars >>

\* line 32
Trim ==
    /\ run_pc = "trim"
    /\ selection' = trim(selection)
    /\ run_pc' = "selected"
    /\ UNCHANGED << examples, stdin, executed >>
    /\ UNCHANGED << loop_vars, www_vars, copy_vars >>

\* lines 34-37: the default
RunDefault ==
    /\ run_pc = "selected"
    /\ Len(selection) = 0
    /\ execute(0)
    /\ UNCHANGED << examples, stdin, selection >>
    /\ UNCHANGED << loop_vars, www_vars, copy_vars >>

\* lines 39-52: a selection by index; unwrap panics when parse fails
RunIndex ==
    /\ run_pc = "selected"
    /\ Len(selection) # 0
    /\ \A k \in 1 .. Len(selection) : is_numeric(selection[k])
    /\ LET i == parse(selection) IN
         IF ~i.ok
         THEN /\ run_pc' = "panicked"
              /\ executed' = executed
         ELSE IF index_known(i.value, Len(examples))
         THEN execute(i.value)
         ELSE /\ run_pc' = "returned"
              /\ executed' = executed
    /\ UNCHANGED << examples, stdin, selection >>
    /\ UNCHANGED << loop_vars, www_vars, copy_vars >>

\* lines 54-61: a selection by name
RunName ==
    /\ run_pc = "selected"
    /\ Len(selection) # 0
    /\ \E k \in 1 .. Len(selection) : ~is_numeric(selection[k])
    /\ LET i == position(examples, selection) IN
         IF i # -1
         THEN execute(i)
         ELSE /\ run_pc' = "returned"
              /\ executed' = executed
    /\ UNCHANGED << examples, stdin, selection >>
    /\ UNCHANGED << loop_vars, www_vars, copy_vars >>

\* ================================================== initial state
\* RenderLoop::new, the statics of the content server, and the buffers of
\* the copy example
Init ==
    /\ pc = "idle"
    /\ recreate_swapchain = FALSE
    /\ window_resized = FALSE
    /\ renderer = Renderer_initialize
    /\ fences = [ i \in 0 .. (get_image_count(Renderer_initialize) - 1) |-> None ]
    /\ previous_fence_i = 0
    /\ image_i = 0
    /\ pending = {}
    /\ cycle = 0
    /\ steps = << >>
    /\ obs = [ cur |-> NoObs, prev |-> [ acquire |-> "none" ], targeted |-> {},
               last |-> None ]
    /\ ServerInit
    /\ CopyInit
    /\ SelectInit

Next ==
    \/ UpdateRebuild
    \/ AcquireOk
    \/ AcquireOutOfDate
    \/ AcquireError
    \/ WaitSlot
    \/ WaitError
    \/ Flush
    \/ ResolveFence
    \/ RenderLoop_handle_window_resize
    \/ CloseRequested

Spec == Init /\ [][Next]_vars

\* the rebuild of lines 33-41 when the recreation returns no fatal error
UpdateRebuildOk == UpdateRebuild /\ pc' # "panicked"

\* the flush of lines 77-93 when no call of flush_next_future panics
FlushReturns == Flush /\ obs'.cur.flush # "exec_panic"

\* the render loop when no call into the graphics library fails fatally:
\* acquisition returns an image or out-of-date, recreation succeeds or
\* returns ImageExtentNotSupported, a wait returns once its fence is
\* resolved, and a flush succeeds or returns an error that update handles
NextLive ==
    \/ UpdateRebuildOk
    \/ AcquireOk
    \/ AcquireOutOfDate
    \/ WaitSlot
    \/ FlushReturns
    \/ ResolveFence
    \/ RenderLoop_handle_window_resize
    \/ CloseRequested

\* The event loop polls: MainEventsCleared is emitted again and again until
\* the window is closed, so update is called whenever the loop is idle; a
\* call into the library returns; the device resolves every fence.
SpecLive ==
    /\ Init /\ [][NextLive]_vars
    /\ WF_vars(UpdateRebuildOk)
    /\ WF_vars(AcquireOk \/ AcquireOutOfDate)
    /\ WF_vars(WaitSlot)
    /\ WF_vars(FlushReturns)
    /\ WF_vars(ResolveFence)

\* the content server alone
NextServer ==
    \E t \in Threads :
        \/ Request(t)
        \/ GuideTemplateMarkdown(t)
        \/ GuideTemplate(t)
        \/ MainTemplate(t)
        \/ Respond(t)

SpecServer == Init /\ [][NextServer]_vars

\* the buffer copy example alone
NextCopy ==
    \/ SubmitCopy
    \/ CopyElement
    \/ SignalFence
    \/ CallWait
    \/ WaitReturns
    \/ WaitCopyError
    \/ ReadBuffers
    \/ AssertEq

SpecCopy == Init /\ [][NextCopy]_vars

\* the example menu alone
NextSelect ==
    \/ SelectMain
    \/ ReadLine
    \/ ReadLineError
    \/ Trim
    \/ RunDefault
    \/ RunIndex
    \/ RunName

SpecSelect == Init /\ [][NextSelect]_vars

\* ============================================================ properties

\* the slot holds a fence the device has not resolved
StoredUnresolved(i) == fences[i] # None /\ fences[i] \in Unresolved

\* the cycle is blocked in the wait of line 57
Blocked == pc = "wait" /\ StoredUnresolved(image_i)

\* the rebuild at the start of the current cycle has replaced resources of
\* the slots: the command buffers (handle_window_resize) or the swapchain
\* images (a successful recreation)
ReplacedAtStart ==
    /\ pc = "acquire"
    /\ \/ obs.cur.rebuild = "handle_window_resize"
       \/ obs.cur.rebuild = "recreate_swapchain" /\ obs.cur.recreate = "ok"

RebuildSteps == { "handle_window_resize", "recreate_swapchain" }

\* s is a prefix of t
IsPrefix(s, t) == Len(s) <= Len(t) /\ \A k \in 1 .. Len(s) : s[k] = t[k]

\* the steps of a cycle without the rebuild that may precede them
CycleSteps ==
    IF steps # << >> /\ steps[1] \in RebuildSteps THEN Tail(steps) ELSE steps

\* C1: whenever update is about to call flush_next_future for the acquired
\* index, the fence an earlier cycle stored in that slot, if any, is resolved.
C1_SubmitAfterStoredFenceResolved ==
    pc = "submit" => ~StoredUnresolved(image_i)

\* C1 witness: update is about to submit for a slot that holds the resolved
\* fence of an earlier cycle, while other submissions are still unresolved.
C1_Witness ==
    /\ pc = "submit"
    /\ fences[image_i] # None
    /\ pending # {}

\* C2 as stated: no slot's command buffer or image is replaced by the rebuild
\* at the start of update, or resubmitted, while the fence stored in the slot
\* is unresolved.
C2_Original ==
    /\ ReplacedAtStart => \A i \in DOMAIN fences : ~StoredUnresolved(i)
    /\ pc = "submit" => ~StoredUnresolved(image_i)

\* C2 amended: no slot's command buffer is resubmitted while a fence produced
\* for that slot is unresolved on the device; the rebuild at the start of
\* update does replace command buffers and images of slots whose stored
\* fence is unresolved (the witness).
C2_NoResubmitWhileUnresolved ==
    pc = "submit" => \A s \in pending : s.slot # image_i

\* C2 witness: the rebuild has replaced the slots' resources while a slot
\* holds an unresolved fence.
C2_Witness ==
    /\ ReplacedAtStart
    /\ \E i \in DOMAIN fences : StoredUnresolved(i)

\* C3: for each image index at most one unresolved fence produced for that
\* index exists.
C3_AtMostOneUnresolvedPerSlot ==
    \A i \in 0 .. FramesInFlight :
        Cardinality({ s \in pending : s.slot = i }) <= 1

\* C3 witness: every slot has an unresolved fence after a resize has been
\* notified.
C3_Witness ==
    /\ \A i \in DOMAIN fences : StoredUnresolved(i)
    /\ window_resized

C6_ResizeIsDeferred ==
    [][ /\ (~window_resized /\ window_resized') =>
              /\ pc = "idle" /\ pc' = "idle"
              /\ UNCHANGED << renderer, recreate_swapchain, fences,
                              previous_fence_i, cycle, steps >>
        /\ renderer' # renderer =>
              /\ pc = "idle" /\ pc' = "acquire"
              /\ cycle' = cycle + 1
      ]_vars

\* C6 witness: a resize was notified while submissions were unresolved, and
\* its rebuild has run at the start of a later cycle.
C6_Witness ==
    /\ pc = "acquire"
    /\ obs.cur.rebuild = "handle_window_resize"
    /\ cycle > 1
    /\ pending # {}

\* C7: when update calls acquire_swapchain_image both flags are false; a
\* cycle that started with a flag set ran a rebuild step first; and the
\* steps of a cycle are a prefix of acquire, wait, submit, present.
C7_RebuildBeforeAcquireInOrder ==
    /\ pc = "acquire" => (~window_resized /\ ~recreate_swapchain)
    /\ obs.cur.need => (steps # << >> /\ steps[1] \in RebuildSteps)
    /\ IsPrefix(CycleSteps, << "acquire", "wait", "submit", "present" >>)

\* C7 witness: a cycle that started with the flag set has rebuilt, acquired,
\* waited, submitted and presented.
C7_Witness ==
    /\ obs.cur.need
    /\ steps = << "recreate_swapchain", "acquire", "wait", "submit", "present" >>

\* C8 as stated (for a recreation that succeeds): when the cycle after an
\* out-of-date acquisition attempts acquisition, the pipeline and the command
\* buffers have been recreated, and every command buffer is recorded against
\* a framebuffer of the current swapchain.
C8_FullRebuildAfterOutOfDate ==
    (obs.prev.acquire = "outofdate" /\ pc = "acquire" /\ obs.cur.recreate = "ok")
        => /\ obs.cur.rebuild = "handle_window_resize"
           /\ \A i \in DOMAIN renderer.command_buffers :
                renderer.command_buffers[i].framebuffer =
                    renderer.framebuffers.swapchain

\* C9: after a cycle whose flush succeeded or was out of date, previous_fence_i
\* is the acquired index; on success the slot holds the fence the flush
\* returned; on out-of-date the slot is empty, the flag is set and the loop
\* has not terminated.
C9_BookkeepingAfterFlush ==
    (pc \in { "idle", "exited" } /\ obs.cur.flush \in { "ok", "outofdate" }) =>
        /\ previous_fence_i = image_i
        /\ obs.cur.flush = "ok" =>
              /\ fences[image_i] # None
              /\ fences[image_i] = obs.cur.fence
              /\ \A s \in pending : s.id = obs.cur.fence => s.slot = image_i
        /\ obs.cur.flush = "outofdate" =>
              /\ fences[image_i] = None
              /\ recreate_swapchain

\* C9 witness: a flush was out of date for a slot after earlier submissions.
C9_Witness ==
    /\ pc = "idle"
    /\ obs.cur.flush = "outofdate"
    /\ pending # {}
    /\ image_i # 0

\* C10 as stated: none of the first FramesInFlight cycles blocks in the wait.
C10_Original ==
    Blocked => cycle > FramesInFlight

\* C10 amended: a slot is empty until a flush has been made for its index, so
\* a cycle that acquires an index no earlier cycle targeted does not block
\* (the first cycles, when they acquire distinct indices); a cycle that
\* targets an index already used does not submit before the fence stored for
\* that index is resolved.
C10_BlocksOnlyOnUsedIndex ==
    /\ \A i \in DOMAIN fences : fences[i] # None => i \in obs.targeted
    /\ Blocked => image_i \in obs.targeted
    /\ (pc = "submit" /\ image_i \in obs.targeted) => ~StoredUnresolved(image_i)

\* C10 witness: after FramesInFlight cycles on distinct indices, all still
\* unresolved, the next cycle is blocked on the index it acquired.
C10_Witness ==
    /\ cycle = FramesInFlight + 1
    /\ Blocked
    /\ obs.targeted = DOMAIN fences
    /\ Cardinality(pending) = FramesInFlight

\* a step in which update calls flush_next_future and it returns
FlushStep ==
    obs.cur.joined.previous = "none" /\ obs'.cur.joined.previous # "none"

\* C11 as stated: every flush is joined with the acquisition future of the
\* acquired index and with the fence of the previous submission, and with
\* sync::now instead only when no flush was made before.
C11_Original ==
    [][ FlushStep =>
          /\ obs'.cur.joined.acquire = image_i
          /\ obs'.cur.joined.previous =
                IF obs.targeted = {} THEN "now" ELSE "previous"
      ]_vars

\* C11 amended: every flush is joined with the acquisition future of the
\* acquired index and with the content of the slot of previous_fence_i: the
\* fence the last flush returned, or sync::now whenever that slot is empty,
\* which is the case before the first flush and also after every flush that
\* failed (out of date or another error).
C11_JoinedWithPreviousSlot ==
    [][ FlushStep =>
          /\ pc = "submit"
          /\ obs'.cur.joined.acquire = image_i
          /\ obs.last = fences[previous_fence_i]
          /\ obs'.cur.joined.previous =
                IF obs.last = None THEN "now" ELSE "previous"
          /\ obs.targeted = {} => obs.last = None
      ]_vars

\* C11 witness: a flush after the first one was joined with sync::now.
C11_Witness ==
    /\ pc = "idle"
    /\ obs.cur.joined.previous = "now"
    /\ Cardinality(obs.targeted) >= 2

\* the first step of a call of update
CycleStart == pc = "idle" /\ cycle' = cycle + 1

\* C12 as stated: a cycle whose acquisition was suboptimal is not skipped
\* (it waits and submits) and leaves the flag set, and the next cycle, when
\* it attempts acquisition, has recreated the swapchain.
C12_Original ==
    [][ /\ (obs'.cur.suboptimal /\ pc' = "idle") =>
              /\ recreate_swapchain'
              /\ "wait" \in { steps'[k] : k \in 1 .. Len(steps') }
              /\ "submit" \in { steps'[k] : k \in 1 .. Len(steps') }
        /\ (obs.cur.suboptimal /\ CycleStart /\ pc' = "acquire") =>
              obs'.cur.recreate = "ok"
      ]_vars

\* C12 amended: a suboptimal acquisition does not end the cycle: the flag is
\* set and stays set until the cycle is over, the cycle goes on to the wait
\* on its slot and from there to the flush, as after any other successful
\* acquisition (it presents when the flush succeeds); the next cycle starts
\* with a rebuild step, which replaces the swapchain unless the recreation
\* returns ImageExtentNotSupported or panics.
C12_SuboptimalIsAccepted ==
    [][ /\ (~obs.cur.suboptimal /\ obs'.cur.suboptimal) =>
              /\ pc = "acquire"
              /\ pc' = IF image_i' \in DOMAIN fences THEN "wait" ELSE "panicked"
        /\ (obs'.cur.suboptimal /\ pc' # "panicked") => recreate_swapchain'
        /\ (obs.cur.suboptimal /\ pc = "wait") =>
              pc' \in { "wait", "submit", "panicked" }
        /\ (obs.cur.suboptimal /\ pc = "submit") =>
              /\ pc' \in { "submit", "idle", "panicked" }
              /\ pc' = "idle" =>
                    /\ obs'.cur.flush \in { "ok", "outofdate", "error" }
                    /\ obs'.cur.flush = "ok" =>
                          steps' = steps \o << "submit", "present" >>
        /\ (obs.cur.suboptimal /\ CycleStart) =>
              /\ obs'.cur.rebuild \in RebuildSteps
              /\ obs'.cur.recreate \in RecreateResults
              /\ obs'.cur.recreate = "ok" =>
                    /\ pc' = "acquire"
                    /\ renderer'.framebuffers =
                          create_framebuffers_from_swapchain_images(
                              renderer'.swapchain)
              /\ obs'.cur.recreate = "unsupported" =>
                    (pc' = "acquire" /\ renderer'.swapchain = renderer.swapchain)
              /\ obs'.cur.recreate = "error" => pc' = "panicked"
      ]_vars

\* C12 witness: a cycle whose acquisition was suboptimal has waited,
\* submitted and presented, and the next cycle can start.
C12_Witness ==
    /\ obs.cur.suboptimal
    /\ pc = "idle"
    /\ steps = << "acquire", "wait", "submit", "present" >>
    /\ recreate_swapchain
    /\ cycle < MaxCycles

\* C13: update blocks only in the wait on the fence stored in the slot of the
\* acquired index: when that slot is empty or its fence is resolved the wait
\* returns whatever the other slots hold, and the flush is never held back
\* by the fence of the previous submission; so update submits while up to
\* all other slots hold unresolved fences.
C13_BlocksOnlyOnAcquiredSlot ==
    /\ (pc = "wait" /\ ~StoredUnresolved(image_i)) => ENABLED WaitSlot
    /\ pc = "submit" => ENABLED Flush
    /\ pc = "submit" => Cardinality(pending) <= Cardinality(DOMAIN fences) - 1

\* C13 witness: update is about to submit while the fence of the previous
\* submission, for another index, and the fences of all other slots are
\* unresolved.
C13_Witness ==
    /\ pc = "submit"
    /\ previous_fence_i # image_i
    /\ StoredUnresolved(previous_fence_i)
    /\ Cardinality(pending) = Cardinality(DOMAIN fences) - 1

\* C14 as stated: the number of frame slots equals the number of images of
\* the renderer's swapchain.
C14_SlotsEqualImages ==
    Cardinality(DOMAIN fences) = renderer.swapchain.count

\* C15 as stated: a slot changes only in the flush of a cycle that acquired
\* its index, after the wait on it, and then holds the fence of that cycle;
\* a cycle skipped by an out-of-date acquisition changes no slot and not
\* previous_fence_i.
C15_Original ==
    [][ /\ \A i \in DOMAIN fences :
              fences'[i] # fences[i] =>
                  /\ pc = "submit" /\ pc' = "idle" /\ i = image_i
                  /\ ~StoredUnresolved(i)
                  /\ fences'[i] # None
                  /\ fences'[i] = obs'.cur.fence
        /\ previous_fence_i' # previous_fence_i => (pc = "submit" /\ pc' = "idle")
        /\ obs'.cur.acquire = "outofdate" => UNCHANGED << fences, previous_fence_i >>
      ]_vars

\* C15 amended: a fence is created only by a flush for the acquired index and
\* is stored in the slot of that index; a slot changes only in the flush of
\* a cycle that acquired its index, after the wait on it, and then holds
\* the fence of that cycle when the flush succeeded and is empty when the
\* flush failed; all other slots are left unchanged, and a cycle skipped by
\* an out-of-date acquisition changes no slot and not previous_fence_i.
C15_SlotLifecycle ==
    [][ /\ \A i \in DOMAIN fences :
              fences'[i] # fences[i] =>
                  /\ pc = "submit" /\ pc' = "idle" /\ i = image_i
                  /\ ~StoredUnresolved(i)
                  /\ fences'[i] = obs'.cur.fence
                  /\ fences'[i] # None <=> obs'.cur.flush = "ok"
        /\ \A s \in pending' \ pending :
              /\ pc = "submit"
              /\ s.slot = image_i
              /\ fences'[image_i] = s.id
        /\ previous_fence_i' # previous_fence_i => (pc = "submit" /\ pc' = "idle")
        /\ obs'.cur.acquire = "outofdate" => UNCHANGED << fences, previous_fence_i >>
      ]_vars

\* C15 witness: the second cycle acquired the index of the first, whose
\* flush had stored a fence, and its own flush was out of date: the slot
\* is empty again.
C15_Witness ==
    /\ pc = "idle"
    /\ cycle = 2
    /\ Cardinality(obs.targeted) = 1
    /\ obs.cur.joined.previous = "previous"
    /\ obs.cur.flush = "outofdate"
    /\ fences[image_i] = None

\* C16: the slots and previous_fence_i change only in the flush step of
\* update; the steps taken between two cycles (the resize handler, the close
\* handler) change neither, and the resize handler changes nothing but
\* window_resized.
C16_SingleWriter ==
    [][ /\ (pc = "idle" /\ pc' \in { "idle", "exited" }) =>
              UNCHANGED << fences, previous_fence_i >>
        /\ (~window_resized /\ window_resized') =>
              UNCHANGED << pc, recreate_swapchain, fences, previous_fence_i,
                           renderer, image_i, pending, cycle >>
        /\ (fences' # fences \/ previous_fence_i' # previous_fence_i) =>
              pc = "submit"
      ]_vars

\* C16 witness: both handlers have run after slots were written.
C16_Witness ==
    /\ pc = "exited"
    /\ window_resized
    /\ previous_fence_i # 0
    /\ \E i \in DOMAIN fences : fences[i] # None

\* C17: between two cycles a close request can always be taken, whatever the
\* device has not resolved; after it no step of update and no handler runs.
C17_CloseExitsWithoutWaiting ==
    /\ pc = "idle" => ENABLED CloseRequested
    /\ pc = "exited" => ~ENABLED Next

\* C17 witness: the loop has exited while a stored fence is unresolved and
\* more cycles could have run.
C17_Witness ==
    /\ pc = "exited"
    /\ cycle < MaxCycles
    /\ \E i \in DOMAIN fences : StoredUnresolved(i)

\* C18: while the fence stored in the acquired slot is unresolved, the wait
\* does not return: update does not reach the flush, no other cycle starts
\* and no handler runs; only the device can end the wait (or an error of
\* the wait itself, which panics).
C18_WaitHasNoTimeout ==
    Blocked =>
        /\ ~ENABLED WaitSlot
        /\ ~ENABLED Flush
        /\ ~ENABLED UpdateRebuild
        /\ ~ENABLED RenderLoop_handle_window_resize
        /\ ~ENABLED CloseRequested
        /\ ENABLED ResolveFence

\* C18 witness: the second cycle is blocked on the fence of the first.
C18_Witness ==
    /\ Blocked
    /\ cycle = 2
    /\ Cardinality(pending) = 1

\* the body main_template is called with for a request of path
page_key(path) ==
    IF routes(path).template = "main_template"
    THEN routes(path).body
    ELSE GUIDE_TEMPLATE(push_html(routes(path).body))

\* C19 as stated: the cache has one entry per request path, rendered by the
\* first request of that path: every path that was answered has had the
\* page rendered once for it.
C19_Original ==
    \A path \in rendered.answered : rendered.page[path] = 1

\* C19 amended: each cache maps a body (the included file, or the output of
\* the cache before it), not the request path, to its rendering, and each
\* body is rendered once per cache over any sequence of requests; paths that
\* are answered with the same body (/guide/windowing and
\* /guide/windowing/introduction, and all paths no route matches) share the
\* entries, so the page is rendered for one of them only.
C19_RenderedOncePerBody ==
    /\ \A c \in CacheNames :
          /\ DOMAIN rendered[c] = DOMAIN CACHE[c]
          /\ \A key \in DOMAIN CACHE[c] :
                /\ rendered[c][key] = 1
                /\ CACHE[c][key] = render(c, key)
    /\ \A path \in rendered.answered :
          /\ page_key(path) \in DOMAIN CACHE.main
          /\ Cardinality({ q \in Paths : /\ page_key(q) = page_key(path)
                                         /\ rendered.page[q] = 1 }) = 1
    /\ \A path \in Paths : rendered.page[path] <= 1
    /\ \A t \in Threads :
          workers[t].pc = "respond" =>
              workers[t].response.html =
                  MAIN_TEMPLATE(page_key(workers[t].path))

\* C19 witness: both paths of the windowing introduction have been answered,
\* and the page was rendered for one of them only.
C19_Witness ==
    /\ { "/guide/windowing", "/guide/windowing/introduction" }
          \subseteq rendered.answered
    /\ rendered.page["/guide/windowing"]
          + rendered.page["/guide/windowing/introduction"] = 1

\* C20: main reads the two buffers only after the wait on the fence of the
\* copy has returned, when the device has copied every element; the read
\* does not find a buffer locked by the device, and the assertion holds: the
\* destination read equals the source read in all BufferLen elements.
C20_ReadAfterFenceWait ==
    /\ main_pc \in { "reading", "assert", "done" } =>
          /\ gpu.state = "signalled"
          /\ gpu.copied = BufferLen
    /\ main_pc \in { "assert", "done" } =>
          /\ Len(content.src) = BufferLen
          /\ Len(content.dst) = BufferLen
          /\ \A i \in 1 .. BufferLen :
                content.dst[i] = content.src[i] /\ content.src[i] = i - 1
    /\ main_pc \notin { "panicked_read", "assert_failed" }

\* C20 witness: the assertion has been passed.
C20_Witness ==
    /\ main_pc = "done"
    /\ content.dst = source
    /\ BufferLen = 64

\* C21: resize notifications coalesce.  A notification that arrives while
\* window_resized is already set changes nothing; the cycle that starts with
\* window_resized set runs handle_window_resize once, as its only rebuild,
\* and leaves both flags clear; no other step runs it.
C21_ResizeNotificationsCoalesce ==
    [][ /\ (pc = "idle" /\ pc' = "idle" /\ window_resized) =>
              /\ window_resized'
              /\ UNCHANGED << recreate_swapchain, fences, previous_fence_i,
                              renderer, image_i, cycle, steps, obs >>
        /\ (CycleStart /\ window_resized) =>
              /\ steps' = << "handle_window_resize" >>
              /\ obs'.cur.rebuild = "handle_window_resize"
              /\ ~window_resized' /\ ~recreate_swapchain'
        /\ (CycleStart /\ ~window_resized) =>
              /\ obs'.cur.rebuild # "handle_window_resize"
              /\ \A k \in 1 .. Len(steps') : steps'[k] # "handle_window_resize"
        /\ ~CycleStart =>
              /\ Len(steps') >= Len(steps)
              /\ \A k \in Len(steps) + 1 .. Len(steps') :
                    steps'[k] # "handle_window_resize"
      ]_vars

\* C21 witness: a resize has been notified between two cycles while work is
\* unresolved, window_resized is set, and a further notification can arrive
\* before the next cycle starts.
C21_Witness ==
    /\ pc = "idle"
    /\ window_resized
    /\ cycle > 0 /\ cycle < MaxCycles
    /\ pending # {}
    /\ ENABLED RenderLoop_handle_window_resize

\* C22: what a template function returns for a body is the rendering of that
\* body, whether the entry was found in the cache or rendered by this call,
\* and whatever was requested before: the markdown converted to HTML, that
\* HTML in the guide template, and the page in the main template.
C22_HitEqualsMiss ==
    [][ \A t \in Threads :
          /\ (workers[t].pc = "guide_template_markdown"
                /\ workers'[t].pc = "guide_template") =>
                workers'[t].body = push_html(workers[t].body)
          /\ (workers[t].pc = "guide_template"
                /\ workers'[t].pc = "main_template") =>
                workers'[t].body = GUIDE_TEMPLATE(workers[t].body)
          /\ (workers[t].pc = "main_template"
                /\ workers'[t].pc = "respond") =>
                workers'[t].response.html = MAIN_TEMPLATE(workers[t].body)
      ]_vars

\* C22 witness: a guide page is about to be answered from entries that
\* earlier requests rendered in all three caches, while the caches hold
\* other bodies as well.
C22_Witness ==
    \E t \in Threads :
        /\ workers[t].pc = "respond"
        /\ workers[t].path = "/guide/memory"
        /\ rendered.page["/guide/memory"] = 1
        /\ "/guide/memory" \in rendered.answered
        /\ Cardinality(DOMAIN CACHE.main) > 1

\* the elements of a sequence
Range(s) == { s[k] : k \in 1 .. Len(s) }

\* a text of ASCII digits that is the decimal notation of a usize
IsIndex(s) == s # << >> /\ \A k \in 1 .. Len(s) : s[k] \in Digits

\* C23: select_example_to_run calls execute at most once and only with an
\* element of examples.  Once it has ended: an empty line has run
\* examples[0]; a number i has run examples[i] when i < len and nothing when
\* i >= len; a text that is not numeric has run the example of that name
\* when it is in the list and nothing otherwise.  The line is taken without
\* the white space around it.
C23_SelectRunsAtMostOneExample ==
    LET line == trim(stdin)
        n == Len(examples)
    IN  /\ Len(executed) <= 1
        /\ Range(executed) \subseteq Range(examples)
        /\ run_pc \in { "main", "read_line", "trim", "selected" } =>
              executed = << >>
        /\ (run_pc \in { "returned", "panicked" } /\ stdin = << >>
              /\ executed = << >>) => run_pc = "panicked"
        /\ (run_pc = "returned" \/ (run_pc = "panicked" /\ stdin # << >>)) =>
              /\ line = << >> =>
                    (run_pc = "returned" /\ executed = << examples[1] >>)
              /\ IsIndex(line) =>
                    /\ run_pc = "returned"
                    /\ decimal(line) < n =>
                          executed = << examples[decimal(line) + 1] >>
                    /\ decimal(line) >= n => executed = << >>
              /\ (line # << >> /\ ~IsIndex(line)
                    /\ \A k \in 1 .. Len(line) : is_numeric(line[k])) =>
                    executed = << >>
              /\ (\E k \in 1 .. Len(line) : ~is_numeric(line[k])) =>
                    /\ run_pc = "returned"
                    /\ executed =
                          IF line \in Range(examples) THEN << line >> ELSE << >>

\* C23 witness: the function has returned after the line " 1" and its line
\* end, and has run the second example.
C23_Witness ==
    /\ run_pc = "returned"
    /\ stdin = << Blank, "1", LineEnd >>
    /\ executed = << examples[2] >>

\* the caches whose Mutex thread t holds
Held(t) == { c \in CacheNames : mutex[c] = t }

\* thread t can take its next step
CanStep(t) ==
    ENABLED (GuideTemplateMarkdown(t) \/ GuideTemplate(t) \/ MainTemplate(t)
                \/ Respond(t))

\* C24: request handlers never deadlock on the caches.  A thread takes the
\* Mutex of the markdown cache, then that of the guide cache, then that of
\* the main cache, each while it holds the ones before (a page that is not
\* markdown takes the last one only); and whenever a request is being
\* handled some thread that handles one can take its next step.
C24_LocksInOrderNoDeadlock ==
    /\ \A t \in Threads :
          LET markdown ==
                routes(workers[t].path).template = "guide_template_markdown"
          IN  /\ workers[t].pc \in { "idle", "guide_template_markdown" } =>
                    Held(t) = {}
              /\ workers[t].pc = "guide_template" =>
                    Held(t) = { "markdown" }
              /\ workers[t].pc = "main_template" =>
                    Held(t) = IF markdown THEN { "markdown", "guide" } ELSE {}
              /\ workers[t].pc = "respond" =>
                    Held(t) = IF markdown THEN CacheNames ELSE { "main" }
    /\ (\E t \in Threads : workers[t].pc # "idle") =>
          \E t \in Threads : workers[t].pc # "idle" /\ CanStep(t)

\* C24 witness: a thread that holds the Mutex of the markdown and of the
\* guide cache waits for that of the main cache, which another thread holds.
C24_Witness ==
    \E t, u \in Threads :
        /\ workers[t].pc = "main_template"
        /\ Held(t) = { "markdown", "guide" }
        /\ mutex.main = u
        /\ u # t
        /\ ~CanStep(t)

\* C25 as stated: the command buffer that flush_next_future is about to
\* submit for the acquired index was recorded against a framebuffer of the
\* swapchain that is current.
C25_SubmittedAgainstCurrentSwapchain ==
    pc = "submit" =>
        /\ image_i \in DOMAIN renderer.command_buffers
        /\ renderer.command_buffers[image_i].framebuffer =
               renderer.swapchain.status

\* C26 as stated: the acquired index and previous_fence_i are indices of
\* fences in every cycle.
C26_SlotIndicesInBounds ==
    /\ image_i \in DOMAIN fences
    /\ previous_fence_i \in DOMAIN fences

\* C27: when the recreation fails with ImageExtentNotSupported,
\* recreate_swapchain returns with the swapchain and the framebuffers as they
\* were (the whole renderer, when update called it directly), and the cycle
\* goes on to the acquisition with both flags clear; any other recreation
\* error ends the process: no step follows it.
C27_ExtentNotSupportedIsSkipped ==
    [][ /\ pc # "panicked"
        /\ (CycleStart /\ obs'.cur.recreate = "unsupported") =>
              /\ renderer'.swapchain = renderer.swapchain
              /\ renderer'.framebuffers = renderer.framebuffers
              /\ obs'.cur.rebuild = "recreate_swapchain" => renderer' = renderer
              /\ pc' = "acquire"
              /\ ~recreate_swapchain' /\ ~window_resized'
        /\ (CycleStart /\ obs'.cur.recreate = "error") => pc' = "panicked"
      ]_vars

\* C27 witness: a recreation requested by an out-of-date acquisition failed
\* with ImageExtentNotSupported, and the same cycle has acquired an image.
C27_Witness ==
    /\ pc = "wait"
    /\ obs.cur.recreate = "unsupported"
    /\ obs.prev.acquire = "outofdate"
    /\ steps = << "recreate_swapchain", "acquire" >>
    /\ ~recreate_swapchain

\* C28: a cycle recreates the swapchain at most once.  Its steps hold at
\* most one rebuild, the first step; a cycle that starts with both flags set
\* runs the resize rebuild and no swapchain-only recreation, and clears
\* both flags; after the first step the renderer is not changed.
C28_AtMostOneRecreationPerCycle ==
    [][ /\ CycleStart =>
              /\ Cardinality({ k \in 1 .. Len(steps') :
                                  steps'[k] \in RebuildSteps }) <= 1
              /\ (window_resized /\ recreate_swapchain) =>
                    /\ steps' = << "handle_window_resize" >>
                    /\ obs'.cur.rebuild = "handle_window_resize"
                    /\ ~window_resized' /\ ~recreate_swapchain'
        /\ ~CycleStart =>
              /\ renderer' = renderer
              /\ Len(steps') >= Len(steps)
              /\ \A k \in Len(steps) + 1 .. Len(steps') :
                    steps'[k] \notin RebuildSteps
      ]_vars

\* C28 witness: the acquisition of the cycle before was out of date and a
\* resize was notified after it, so the cycle started with both flags set;
\* it has run the resize rebuild only and has acquired an image.
C28_Witness ==
    /\ pc = "wait"
    /\ obs.prev.acquire = "outofdate"
    /\ obs.cur.rebuild = "handle_window_resize"
    /\ steps = << "handle_window_resize", "acquire" >>

\* C29 as stated, when every fence is resolved in the end and no call into
\* the graphics library fails fatally: every call of update ends, and an
\* acquisition that is not out of date is followed by the submission of the
\* frame.
C29_UpdateEndsAndSubmits ==
    /\ (pc \in { "acquire", "wait", "submit" }) ~> (pc \in { "idle", "panicked" })
    /\ (obs.cur.acquire = "ok") ~> (obs.cur.flush # "none")

====
